---- MODULE Spec2Model ----
(***************************************************************************)
(* A model of the Cards Against Humanity game core of cardinal-cah: the    *)
(* classes Player and Game.  The repository holds the core twice: inlined  *)
(* in plugin.py (below "# Begin game code") and as game.py.  The two       *)
(* copies differ in one line of Game.remove_player (and in the unused      *)
(* Lock of game.py): Spec is a game of plugin.py, SpecGame one of game.py. *)
(*                                                                         *)
(* Player objects are modelled by identity (Ids): a removed player can     *)
(* still be referenced by the picker field, by a submission or by the      *)
(* play deque.  Cards and texts are sequences of string tokens: a white    *)
(* card is <<"w3">>, a black card <<"q2", "%s", "%s">>, and a submission   *)
(* text is the black card with its "%s" tokens replaced.                   *)
(***************************************************************************)
EXTENDS Integers, Sequences, FiniteSets, TLC

(* ------------------------------- bounds -------------------------------- *)

\* Player objects that can be referenced at once (roster, deque, picker).
MaxObjects == 4
\* Cards loaded into the white (response) deck.
NWhite == 9
\* Cards loaded into the black (prompt) deck.
NBlack == 3
\* Hand capacity used by draw(): stands for DEFAULT_HAND_SIZE (10 in the
\* source), scaled down together with the decks.
HandSize == 2
\* Largest max_points a game is constructed with.
MaxMaxPoints == 2
\* Number of outcomes of random.shuffle the model tells apart, for each
\* thing shuffled: the white deck (whose cards are interchangeable), the
\* black deck, the play deque and the submissions.
NShuffleWhite == 1
NShuffleBlack == 2
NShuffleDeque == 2
NShuffleChoices == 2
\* Players that leave a game, lobby included.
MaxRemovals == 1
\* Cards loaded into the decks of a game that is played over many rounds.
NWhiteRounds == 15
NBlackRounds == 4

(* ------------------------------ constants ------------------------------ *)

WAITING == 1
CHOOSING == 2
PICKING == 3

STARTING == 1
WAITING_CHOICES == 2
WAITING_PICK == 3
OVER == 4

None == 0

Ids == 1 .. MaxObjects

\* Names the callers use, in the order in which new names first appear.
Names == <<"a", "b", "c", "d", "e", "f">>

AllWhite ==
    << <<"w1">>, <<"w2">>, <<"w3">>, <<"w4">>, <<"w5">>, <<"w6">>, <<"w7">>,
       <<"w8">>, <<"w9">>, <<"w10">>, <<"w11">>, <<"w12">>, <<"w13">>,
       <<"w14">>, <<"w15">>, <<"w16">>, <<"w17">>, <<"w18">>, <<"w19">>,
       <<"w20">> >>

AllBlack ==
    << <<"q1", "%s", "%s">>, <<"q2">>, <<"q3", "%s">>, <<"q4", "%s", "%s">>,
       <<"q5">>, <<"q6", "%s">> >>

\* The contents of white.txt and black.txt (distinct cards).
WhiteCards == SubSeq(AllWhite, 1, NWhite)
BlackCards == SubSeq(AllBlack, 1, NBlack)

(* ------------------------------- helpers ------------------------------- *)

Range(s) == {s[k] : k \in 1 .. Len(s)}

RECURSIVE Reverse(_)
Reverse(s) == IF s = <<>> THEN <<>> ELSE Append(Reverse(Tail(s)), Head(s))

RemoveAt(s, k) == SubSeq(s, 1, k - 1) \o SubSeq(s, k + 1, Len(s))

\* Position of the first element equal to x, 0 when there is none.
RECURSIVE IndexOfFrom(_, _, _)
IndexOfFrom(s, x, k) ==
    IF k > Len(s) THEN 0
    ELSE IF s[k] = x THEN k
    ELSE IndexOfFrom(s, x, k + 1)

IndexOf(s, x) == IndexOfFrom(s, x, 1)

\* random.shuffle: the outcome is an arrangement of the same elements that
\* does not depend on the order they were in.  The model tells a few
\* outcomes apart, r naming one: the elements by ascending rank, by
\* descending rank, or by ascending rank cut after the first.  rank[k] is
\* the rank of s[k]; elements of equal rank keep their order.

RECURSIVE insert_ranked(_, _)
insert_ranked(sorted, x) ==
    IF sorted = <<>> THEN <<x>>
    ELSE IF Head(sorted)[1] <= x[1]
         THEN <<Head(sorted)>> \o insert_ranked(Tail(sorted), x)
         ELSE <<x>> \o sorted

\* <<rank, element>> pairs by ascending rank.
RECURSIVE ranked(_, _, _)
ranked(s, rank, n) ==
    IF n = 0 THEN <<>>
    ELSE insert_ranked(ranked(s, rank, n - 1), <<rank[n], s[n]>>)

ascending(s, rank) ==
    LET a == ranked(s, rank, Len(s)) IN [i \in 1 .. Len(s) |-> a[i][2]]

shuffle(s, rank, r) ==
    LET a == ascending(s, rank)
    IN IF Len(s) < 2 \/ r = 1 THEN a
       ELSE IF r = 2 THEN Reverse(a)
       ELSE IF r = 3 THEN Tail(a) \o <<Head(a)>>
       ELSE SubSeq(a, 1, Len(a) - 2) \o <<a[Len(a)], a[Len(a) - 1]>>

\* The ranks the outcomes are told apart by: a card's place in its file
\* (0 for anything that is not a card of the file), a player's identity, a
\* submission's author.
card_rank(deck, file) == [k \in 1 .. Len(deck) |-> IndexOf(file, deck[k])]
player_rank(q) == [k \in 1 .. Len(q) |-> q[k]]
choice_rank(cs) == [k \in 1 .. Len(cs) |-> cs[k][1]]

shuffle_white(deck, r) == shuffle(deck, card_rank(deck, AllWhite), r)
shuffle_black(deck, r) == shuffle(deck, card_rank(deck, AllBlack), r)

\* str.count('%s') on a black card.
RECURSIVE count_blanks(_)
count_blanks(card) ==
    IF card = <<>> THEN 0
    ELSE (IF Head(card) = "%s" THEN 1 ELSE 0) + count_blanks(Tail(card))

\* A (player, text) tuple, as Game.remove_player puts it into the white deck.
tuple_of(player, text) == <<"tuple", ToString(player)>> \o text

is_tuple(x) == Len(x) > 0 /\ x[1] = "tuple"

\* The % operator: the k-th "%s" of the black card is replaced by args[k].
RECURSIVE format(_, _)
format(card, args) ==
    IF card = <<>> THEN <<>>
    ELSE IF Head(card) = "%s"
         THEN Head(args) \o format(Tail(card), Tail(args))
         ELSE <<Head(card)>> \o format(Tail(card), args)

(* -------------------------------- state -------------------------------- *)

VARIABLES
    max_points,      \* Game.max_points
    state,           \* Game.state
    players,         \* Game.players: the roster, as its keys' objects in insertion order
    play_deque,      \* Game.play_deque, right end last
    picker,          \* Game.picker (None or an object)
    black_card,      \* Game.black_card (<<>> for None)
    required_cards,  \* Game.required_cards
    choices,         \* Game.choices: sequence of <<player, text>>
    scores,          \* Game.scores: sequence of players
    white,           \* Game.deck['white'], top of the deck last
    black,           \* Game.deck['black'], top of the deck last
    pname,           \* Player.name of each object ("" when not constructed)
    pstate,          \* Player.state of each object
    points,          \* Player.points of each object
    hand,            \* Player.hand of each object
    last,            \* the last call that changed the game: operation,
                     \* argument, outcome, state before
    lock,            \* Game.lock of game.py: TRUE while a thread holds it
    call,            \* the Player.choose call a thread is in the middle of
    judges           \* the judges of the rounds started since the roster
                     \* last changed, in order

vars == <<max_points, state, players, play_deque, picker, black_card,
          required_cards, choices, scores, white, black, pname, pstate,
          points, hand, last, lock, call, judges>>

\* The game object as one value, for the operators below.
Game ==
    [max_points |-> max_points, state |-> state, players |-> players,
     play_deque |-> play_deque, picker |-> picker, black_card |-> black_card,
     required_cards |-> required_cards, choices |-> choices,
     scores |-> scores, white |-> white, black |-> black, pname |-> pname,
     pstate |-> pstate, points |-> points, hand |-> hand]

\* No Player.choose call is in progress.
Idle == [pc |-> "idle", self |-> None, choices |-> <<>>]

\* A step of a call leaves the game as g.  A call that leaves the game as
\* it was leaves no trace in last.  No operation acquires the lock.
Leaves(g, op, who, err) ==
    /\ max_points' = g.max_points
    /\ state' = g.state
    /\ players' = g.players
    /\ play_deque' = g.play_deque
    /\ picker' = g.picker
    /\ black_card' = g.black_card
    /\ required_cards' = g.required_cards
    /\ choices' = g.choices
    /\ scores' = g.scores
    /\ white' = g.white
    /\ black' = g.black
    /\ pname' = g.pname
    /\ pstate' = g.pstate
    /\ points' = g.points
    /\ hand' = g.hand
    /\ last' = IF g = Game THEN last
               ELSE [op |-> op, who |-> who, err |-> err, from |-> state]
    /\ lock' = lock
    /\ judges' = LET since == IF g.players = players THEN judges ELSE <<>>
                 IN IF Len(g.black) < Len(black)
                    THEN Append(since, g.picker) ELSE since

\* The call returns (or raises err) leaving the game as g, in one step.
Returns(g, op, who, err) == Leaves(g, op, who, err) /\ call' = call

\* Game.players[name]: the roster's object of that name, None when absent.
lookup(g, name) ==
    IF \E k \in 1 .. Len(g.players) : g.pname[g.players[k]] = name
    THEN g.players[CHOOSE k \in 1 .. Len(g.players) : g.pname[g.players[k]] = name]
    ELSE None

\* Objects something still refers to.
Referenced(g) ==
    Range(g.players) \cup Range(g.play_deque) \cup {g.picker}
        \cup {g.choices[k][1] : k \in 1 .. Len(g.choices)}

(* ------------------------------- Player -------------------------------- *)

\* The loop of Player.draw going on while the hand is not above hand_size.
RECURSIVE draw_one_more(_, _, _)
draw_one_more(h, deck, hand_size) ==
    IF Len(h) <= hand_size /\ Len(deck) > 0
    THEN draw_one_more(Append(h, deck[Len(deck)]),
                       SubSeq(deck, 1, Len(deck) - 1), hand_size)
    ELSE <<h, deck>>

\* Player.draw: <<hand, white deck>> after drawing up to hand_size cards.
RECURSIVE draw_loop(_, _, _)
draw_loop(h, deck, hand_size) ==
    IF Len(h) < hand_size /\ Len(deck) > 0
    THEN draw_loop(Append(h, deck[Len(deck)]), SubSeq(deck, 1, Len(deck) - 1),
                   hand_size)
    ELSE <<h, deck>>

\* Player.draw without the pop: the card is copied into the hand and stays
\* on the deck.
draw_keeping_deck(g, p, hand_size) ==
    LET d == draw_loop(g.hand[p], g.white, hand_size)
    IN [g EXCEPT !.hand[p] = d[1]]

draw(g, p, hand_size) ==
    LET d == draw_loop(g.hand[p], g.white, hand_size)
    IN [g EXCEPT !.hand[p] = d[1], !.white = d[2]]

\* int(idx) of a command token: <<TRUE, n>>, or <<FALSE, 0>> when int() raises.
int(tok) ==
    CASE tok = "-9" -> <<TRUE, -9>>
      [] tok = "-2" -> <<TRUE, -2>>
      [] tok = "-1" -> <<TRUE, -1>>
      [] tok = "0" -> <<TRUE, 0>>
      [] tok = "1" -> <<TRUE, 1>>
      [] tok = "2" -> <<TRUE, 2>>
      [] tok = "3" -> <<TRUE, 3>>
      [] tok = "9" -> <<TRUE, 9>>
      [] OTHER -> <<FALSE, 0>>

\* list[i] of Python, as a position of a sequence of length n: 0 when it
\* raises IndexError.  A negative i counts from the end.
py_index(i, n) ==
    IF 0 <= i /\ i < n THEN i + 1
    ELSE IF i < 0 /\ -n <= i THEN n + i + 1
    ELSE 0

\* The staging loop of Player.choose: the cards at the given indices, or
\* <<FALSE, <<>>>> when an index raises.
RECURSIVE stage(_, _)
stage(h, cards) ==
    IF cards = <<>> THEN <<TRUE, <<>>>>
    ELSE LET i == int(Head(cards))
             k == IF i[1] THEN py_index(i[2], Len(h)) ELSE 0
             rest == stage(h, Tail(cards))
         IN IF k = 0 \/ ~rest[1] THEN <<FALSE, <<>>>>
            ELSE <<TRUE, <<h[k]>> \o rest[2]>>

\* The removal loop stopping after the first staged choice.
remove_first_choice(h, chosen) ==
    IF chosen = <<>> THEN <<TRUE, h>>
    ELSE LET k == IndexOf(h, Head(chosen))
         IN IF k = 0 THEN <<FALSE, h>> ELSE <<TRUE, RemoveAt(h, k)>>

\* list.remove for each staged choice, in order: <<ok, hand>>; ok is FALSE
\* when a choice is no longer in the hand (ValueError), with the hand as the
\* earlier removals left it.
RECURSIVE remove_choices(_, _)
remove_choices(h, chosen) ==
    IF chosen = <<>> THEN <<TRUE, h>>
    ELSE LET k == IndexOf(h, Head(chosen))
         IN IF k = 0 THEN <<FALSE, h>>
            ELSE remove_choices(RemoveAt(h, k), Tail(chosen))

(* --------------------------------- Game -------------------------------- *)

\* sorted(..., key=points): a stable ascending insertion.
RECURSIVE insert_by_points(_, _, _)
insert_by_points(sorted, p, pts) ==
    IF sorted = <<>> THEN <<p>>
    ELSE IF pts[Head(sorted)] <= pts[p]
         THEN <<Head(sorted)>> \o insert_by_points(Tail(sorted), p, pts)
         ELSE <<p>> \o sorted

RECURSIVE sorted_by_points(_, _)
sorted_by_points(ps, pts) ==
    IF ps = <<>> THEN <<>>
    ELSE insert_by_points(sorted_by_points(SubSeq(ps, 1, Len(ps) - 1), pts),
                          ps[Len(ps)], pts)

\* The tally without players.reverse(): lowest points first.
_tally_ascending(g) ==
    [g EXCEPT !.scores = sorted_by_points(g.players, g.points)]

\* Game._tally_scores
_tally_scores(g) ==
    [g EXCEPT !.scores = Reverse(sorted_by_points(g.players, g.points))]

\* Game._end_game
_end_game(g) == [_tally_scores(g) EXCEPT !.state = OVER]

\* Game._prepare_picks
_prepare_picks(g, r) ==
    [g EXCEPT !.choices = shuffle(@, choice_rank(@), r),
              !.pstate[g.picker] = PICKING,
              !.state = WAITING_PICK]

\* The loop of _prepare_round over the roster: stops at the first player
\* holding max_points, after topping off the hands of the players before.
RECURSIVE top_off(_, _)
top_off(g, k) ==
    IF k > Len(g.players) THEN [g |-> g, won |-> FALSE]
    ELSE IF g.points[g.players[k]] = g.max_points THEN [g |-> g, won |-> TRUE]
    ELSE top_off(draw(g, g.players[k], HandSize), k + 1)

\* The new round with the judge read off the queue and left in place.
new_round_same_queue(g) ==
    LET judge == g.play_deque[Len(g.play_deque)]
        card == g.black[Len(g.black)]
        blanks == count_blanks(card)
    IN [g EXCEPT
          !.picker = judge,
          !.choices = <<>>,
          !.pstate = [p \in Ids |->
                        IF p = judge THEN WAITING
                        ELSE IF p \in Range(g.players) THEN CHOOSING
                        ELSE @[p]],
          !.black_card = card,
          !.black = SubSeq(@, 1, Len(@) - 1),
          !.required_cards = IF blanks = 0 THEN 1 ELSE blanks,
          !.state = WAITING_CHOICES]

\* The new round asking for as many cards as the prompt has blanks, none
\* for a prompt without blanks.
new_round_no_minimum(g) ==
    LET judge == g.play_deque[Len(g.play_deque)]
        card == g.black[Len(g.black)]
    IN [g EXCEPT
          !.picker = judge,
          !.play_deque = <<judge>> \o SubSeq(@, 1, Len(@) - 1),
          !.choices = <<>>,
          !.pstate = [p \in Ids |->
                        IF p = judge THEN WAITING
                        ELSE IF p \in Range(g.players) THEN CHOOSING
                        ELSE @[p]],
          !.black_card = card,
          !.black = SubSeq(@, 1, Len(@) - 1),
          !.required_cards = count_blanks(card),
          !.state = WAITING_CHOICES]

\* The new round with the prompt read off the black deck and left on it.
new_round_keeping_prompt(g) ==
    LET judge == g.play_deque[Len(g.play_deque)]
        card == g.black[Len(g.black)]
        blanks == count_blanks(card)
    IN [g EXCEPT
          !.picker = judge,
          !.play_deque = <<judge>> \o SubSeq(@, 1, Len(@) - 1),
          !.choices = <<>>,
          !.pstate = [p \in Ids |->
                        IF p = judge THEN WAITING
                        ELSE IF p \in Range(g.players) THEN CHOOSING
                        ELSE @[p]],
          !.black_card = card,
          !.required_cards = IF blanks = 0 THEN 1 ELSE blanks,
          !.state = WAITING_CHOICES]

\* The rest of _prepare_round once hands are topped off and cards remain.
new_round(g) ==
    LET judge == g.play_deque[Len(g.play_deque)]
        card == g.black[Len(g.black)]
        blanks == count_blanks(card)
    IN [g EXCEPT
          !.picker = judge,
          !.play_deque = <<judge>> \o SubSeq(@, 1, Len(@) - 1),
          !.choices = <<>>,
          !.pstate = [p \in Ids |->
                        IF p = judge THEN WAITING
                        ELSE IF p \in Range(g.players) THEN CHOOSING
                        ELSE @[p]],
          !.black_card = card,
          !.black = SubSeq(@, 1, Len(@) - 1),
          !.required_cards = IF blanks = 0 THEN 1 ELSE blanks,
          !.state = WAITING_CHOICES]

\* The round preparation testing the black deck only.
_prepare_round_black_only(g, rw, rb) ==
    LET g1 == IF g.state = STARTING
              THEN [g EXCEPT !.white = shuffle_white(@, rw),
                             !.black = shuffle_black(@, rb)]
              ELSE g
        t == top_off(g1, 1)
    IN IF t.won THEN _end_game(t.g)
       ELSE IF Len(t.g.black) = 0 THEN _end_game(t.g)
       ELSE new_round(t.g)

\* Game._prepare_round; rw and rb are the outcomes of the two shuffles of a
\* starting game.
_prepare_round(g, rw, rb) ==
    LET g1 == IF g.state = STARTING
              THEN [g EXCEPT !.white = shuffle_white(@, rw),
                             !.black = shuffle_black(@, rb)]
              ELSE g
        t == top_off(g1, 1)
    IN IF t.won THEN _end_game(t.g)
       ELSE IF Len(t.g.white) = 0 \/ Len(t.g.black) = 0 THEN _end_game(t.g)
       ELSE new_round(t.g)

\* Game.choose(player, cards): the game and the exception raised ("ok" for
\* none).  r is the outcome of the shuffle of _prepare_picks.
Game_choose(g, p, cards, r) ==
    IF g.state # WAITING_CHOICES THEN [g |-> g, err |-> "InvalidMoveError"]
    ELSE IF Len(cards) # g.required_cards
    THEN [g |-> g, err |-> "InvalidChoiceError"]
    \* str % tuple with one "%s": "not all arguments converted"
    ELSE IF count_blanks(g.black_card) = 1 /\ is_tuple(cards[1])
    THEN [g |-> g, err |-> "TypeError"]
    ELSE LET choice == IF count_blanks(g.black_card) = 0 THEN cards[1]
                       ELSE IF count_blanks(g.black_card) = 1
                       THEN format(g.black_card, <<cards[1]>>)
                       ELSE format(g.black_card, cards)
             g1 == [g EXCEPT !.choices = Append(@, <<p, choice>>)]
         IN [g |-> IF Len(g1.players) - 1 = Len(g1.choices)
                   THEN _prepare_picks(g1, r) ELSE g1,
             err |-> "ok"]

\* Player.choose(cards), cards being the index tokens.
Player_choose(g, p, cards, r) ==
    IF g.pstate[p] # CHOOSING THEN [g |-> g, err |-> "InvalidMoveError"]
    ELSE LET staged == stage(g.hand[p], cards)
         IN IF ~staged[1] THEN [g |-> g, err |-> "InvalidChoiceError"]
            ELSE LET c == Game_choose(g, p, staged[2], r)
                     rm == remove_choices(c.g.hand[p], staged[2])
                     g2 == [c.g EXCEPT !.hand[p] = rm[2]]
                 IN IF c.err # "ok" THEN c
                    ELSE IF ~rm[1] THEN [g |-> g2, err |-> "ValueError"]
                    ELSE [g |-> [draw(g2, p, HandSize) EXCEPT
                                   !.pstate[p] = WAITING],
                          err |-> "ok"]

\* Game.pick(choice), choice being the index token; ret is the submission
\* the call returns (<<>> when it raises).
pick(g, choice) ==
    IF g.state # WAITING_PICK
    THEN [g |-> g, err |-> "InvalidMoveError", ret |-> <<>>]
    ELSE IF ~int(choice)[1] THEN [g |-> g, err |-> "ValueError", ret |-> <<>>]
    ELSE LET k == py_index(int(choice)[2], Len(g.choices))
         IN IF k = 0 THEN [g |-> g, err |-> "InvalidPickError", ret |-> <<>>]
            ELSE LET g1 == [g EXCEPT !.points[g.choices[k][1]] = @ + 1]
                 IN [g |-> _prepare_round(_tally_scores(g1), 1, 1),
                     err |-> "ok", ret |-> g.choices[k]]

\* A ready that does not look at the state.
ready_in_any_state(g, rw, rb) ==
    IF Len(g.players) < 3 THEN [g |-> g, err |-> "NotEnoughPlayersError"]
    ELSE [g |-> _prepare_round(g, rw, rb), err |-> "ok"]

\* A ready that starts the game with two players.
ready_with_two(g, rw, rb) ==
    IF g.state # STARTING THEN [g |-> g, err |-> "InvalidMoveError"]
    ELSE IF Len(g.players) < 2 THEN [g |-> g, err |-> "NotEnoughPlayersError"]
    ELSE [g |-> _prepare_round(g, rw, rb), err |-> "ok"]

\* Game.ready()
ready(g, rw, rb) ==
    IF g.state # STARTING THEN [g |-> g, err |-> "InvalidMoveError"]
    ELSE IF Len(g.players) < 3 THEN [g |-> g, err |-> "NotEnoughPlayersError"]
    ELSE [g |-> _prepare_round(g, rw, rb), err |-> "ok"]

\* An add_player that does not look for the name among the players.
add_player_twice(g, name, new, r) ==
    IF g.state # STARTING THEN [g |-> g, err |-> "InvalidMoveError"]
    ELSE [g |-> [g EXCEPT !.pname[new] = name,
                          !.pstate[new] = WAITING,
                          !.points[new] = 0,
                          !.hand[new] = <<>>,
                          !.players = Append(@, new),
                          !.play_deque = shuffle(Append(@, new),
                                                 player_rank(Append(@, new)), r)],
          err |-> "ok"]

\* An add_player that leaves the newcomer out of the play queue.
add_player_unqueued(g, name, new, r) ==
    IF g.state # STARTING THEN [g |-> g, err |-> "InvalidMoveError"]
    ELSE IF lookup(g, name) # None THEN [g |-> g, err |-> "PlayerExistsError"]
    ELSE [g |-> [g EXCEPT !.pname[new] = name,
                          !.pstate[new] = WAITING,
                          !.points[new] = 0,
                          !.hand[new] = <<>>,
                          !.players = Append(@, new),
                          !.play_deque = shuffle(@, player_rank(@), r)],
          err |-> "ok"]

\* Game.add_player(name); new is the object Player(name, self) constructs.
add_player(g, name, new, r) ==
    IF g.state # STARTING THEN [g |-> g, err |-> "InvalidMoveError"]
    ELSE IF lookup(g, name) # None THEN [g |-> g, err |-> "PlayerExistsError"]
    ELSE [g |-> [g EXCEPT !.pname[new] = name,
                          !.pstate[new] = WAITING,
                          !.points[new] = 0,
                          !.hand[new] = <<>>,
                          !.players = Append(@, new),
                          !.play_deque = shuffle(Append(@, new),
                                                 player_rank(Append(@, new)), r)],
          err |-> "ok"]

\* The loop of remove_player over enumerate(self.choices), which deletes
\* from the list it walks: position k of the list as it is now.
RECURSIVE excise(_, _, _)
excise(g, p, k) ==
    IF k > Len(g.choices) THEN g
    ELSE IF g.choices[k][1] = p
    THEN excise([g EXCEPT
                   !.choices = RemoveAt(@, k),
                   !.white = Append(@, tuple_of(g.choices[k][1],
                                                g.choices[k][2]))],
                p, k + 1)
    ELSE excise(g, p, k + 1)

\* "give players their choices back": player.hand.append(card) per choice.
RECURSIVE give_back(_, _)
give_back(g, k) ==
    IF k > Len(g.choices) THEN g
    ELSE give_back([g EXCEPT !.hand[g.choices[k][1]] =
                                 Append(@, g.choices[k][2])],
                   k + 1)

\* The branches of remove_player once the player is gone and the white deck
\* is shuffled (plugin.py:605-622).
after_removal(g, name, r) ==
    IF g.state # STARTING /\ Len(g.players) < 3
    THEN [g |-> _end_game(g), err |-> "ok"]
    ELSE IF g.state = WAITING_CHOICES /\ Len(g.players) - 1 = Len(g.choices)
    THEN [g |-> _prepare_picks(g, r), err |-> "ok"]
    ELSE IF g.state # STARTING
    THEN (IF g.picker = None THEN [g |-> g, err |-> "AttributeError"]
          ELSE IF g.pname[g.picker] = name
          THEN [g |-> _prepare_round(give_back(g, 1), 1, 1), err |-> "ok"]
          ELSE [g |-> g, err |-> "ok"])
    ELSE [g |-> g, err |-> "ok"]

\* Game.remove_player(name) of plugin.py; rw and r are the outcomes of the
\* shuffles of the white deck and of _prepare_picks.
remove_player(g, name, rw, r) ==
    LET p == lookup(g, name)
        k == IndexOf(g.players, p)
        q == IndexOf(g.play_deque, p)
        g1 == [g EXCEPT !.players = RemoveAt(@, k)]
        g2 == [g1 EXCEPT !.play_deque = RemoveAt(@, q)]
        g3 == [g2 EXCEPT !.white = @ \o Reverse(g2.hand[p]),
                         !.hand[p] = <<>>]
        g4 == excise(g3, p, 1)
        g5 == [g4 EXCEPT !.white = shuffle_white(@, rw)]
    IN IF p = None THEN [g |-> g, err |-> "KeyError"]
       ELSE IF q = 0 THEN [g |-> g1, err |-> "ValueError"]
       ELSE after_removal(g5, name, r)

\* Game.remove_player(name) of game.py: the roster entry is deleted, then
\* looked up again for play_deque.remove, which raises KeyError.
remove_player_game(g, name) ==
    LET p == lookup(g, name)
        k == IndexOf(g.players, p)
    IN IF p = None THEN [g |-> g, err |-> "KeyError"]
       ELSE [g |-> [g EXCEPT !.players = RemoveAt(@, k)], err |-> "KeyError"]

(* ------------------------------ CAHPlugin ------------------------------ *)

\* config['channel'], the channel the game is played in.
GameChannel == "#cah"

\* cardinal.sendMsg(to, text): the message <<to, text>>.  A text the code
\* formats is written with its fixed words only.
sendMsg(to, text) == << <<to, text>> >>

\* CAHPlugin.show_black_card
show_black_card(g) == sendMsg(GameChannel, "Black card: | Player picking:")

\* CAHPlugin.show_hands: one message to the player who waits, three to
\* every other, each in private.
RECURSIVE show_hands(_, _)
show_hands(g, k) ==
    IF k > Len(g.players) THEN <<>>
    ELSE LET p == g.players[k]
             nick == g.pname[p]
         IN (IF g.pstate[p] = WAITING
             THEN sendMsg(nick, "You are picking this round.")
             ELSE sendMsg(nick, "Use .choose to make your choice.")
                  \o sendMsg(nick, "Hand:")
                  \o sendMsg(nick, "Black card: | Player picking:"))
            \o show_hands(g, k + 1)

\* CAHPlugin.show_choices
show_choices(g) ==
    (IF count_blanks(g.black_card) = 0
     THEN sendMsg(GameChannel, "black_card") ELSE <<>>)
    \o [k \in 1 .. Len(g.choices) |-> <<GameChannel, "[idx] choice">>]
    \o sendMsg(GameChannel, "Make your choice with .choose!")

\* CAHPlugin.send_scores and CAHPlugin.finish_game
send_scores(g) == [k \in 1 .. Len(g.scores) |-> <<GameChannel, "points">>]

finish_game(g) ==
    send_scores(g)
    \o sendMsg(GameChannel, "Well played! You may use .play to start a new game.")

\* A .choose command answered where the game is played, not where the
\* command came from.
choose_answered_in_game_channel(g, nick, channel, cards, r) ==
    [g |-> g, sent |-> sendMsg(GameChannel, "Please wait for your turn."),
     err |-> "ok"]

\* CAHPlugin.choose(cardinal, user, channel, msg) on a plugin that has the
\* game g: nick is user.nick, channel the place the command came from and
\* cards the tokens of msg after the command word.  The result is the
\* game, the messages sent in their order and the exception that escapes
\* ("ok" for none).
CAHPlugin_choose(g, nick, channel, cards, r) ==
    LET player == lookup(g, nick)
        unknown == IF player = None
                   THEN sendMsg(channel, "It doesn't look like you're playing. Join in next time!")
                   ELSE <<>>
        over(g2) == IF g2.state = OVER THEN finish_game(g2) ELSE <<>>
    IN IF g.state = STARTING
       THEN [g |-> g,
             sent |-> unknown \o sendMsg(channel, "Please wait for your turn."),
             err |-> "ok"]
       \* player is not bound after the KeyError
       ELSE IF player = None
       THEN [g |-> g, sent |-> unknown, err |-> "UnboundLocalError"]
       ELSE IF g.pstate[player] = WAITING
       THEN [g |-> g, sent |-> sendMsg(channel, "Please wait for your turn."),
             err |-> "ok"]
       ELSE IF g.pstate[player] = CHOOSING
       THEN LET c == Player_choose(g, player, cards, r)
            IN IF c.err = "InvalidChoiceError"
               THEN [g |-> c.g, sent |-> sendMsg(channel, "isn't a valid choice"),
                     err |-> "ok"]
               ELSE IF c.err \notin {"ok", "InvalidMoveError"}
               THEN [g |-> c.g, sent |-> <<>>, err |-> c.err]
               ELSE [g |-> c.g,
                     sent |-> (IF c.g.state = WAITING_PICK
                               THEN show_choices(c.g)
                               ELSE sendMsg(GameChannel, "has chosen. Still choosing:"))
                              \o over(c.g),
                     err |-> "ok"]
       ELSE \* Player.PICKING
            IF Len(cards) > 1
            THEN [g |-> g, sent |-> sendMsg(channel, "You may only pick one winner."),
                  err |-> "ok"]
            ELSE IF cards = <<>>
            THEN [g |-> g, sent |-> <<>>, err |-> "IndexError"]
            ELSE LET c == pick(g, cards[1])
                 IN IF c.err = "InvalidPickError"
                    THEN [g |-> c.g,
                          sent |-> sendMsg(channel, "Invalid pick. Please try again!"),
                          err |-> "ok"]
                    ELSE IF c.err = "InvalidMoveError"
                    \* pass leaves card unbound for the message that follows
                    THEN [g |-> c.g, sent |-> <<>>, err |-> "UnboundLocalError"]
                    ELSE IF c.err # "ok"
                    THEN [g |-> c.g, sent |-> <<>>, err |-> c.err]
                    ELSE [g |-> c.g,
                          sent |-> sendMsg(GameChannel, "won the round")
                                   \o (IF c.g.state = WAITING_CHOICES
                                       THEN show_black_card(c.g)
                                            \o show_hands(c.g, 1)
                                       ELSE <<>>)
                                   \o over(c.g),
                          err |-> "ok"]

(* ------------------------------- actions -------------------------------- *)

\* Objects nothing refers to any more are gone: their fields read as those
\* of a new object.  The name stays, as the mark of an identity in use.
collect(g) ==
    [g EXCEPT
       !.pstate = [p \in Ids |-> IF p \in Referenced(g) THEN @[p] ELSE WAITING],
       !.points = [p \in Ids |-> IF p \in Referenced(g) THEN @[p] ELSE 0],
       !.hand = [p \in Ids |-> IF p \in Referenced(g) THEN @[p] ELSE <<>>]]

\* A name no player ever bears.
Stranger == "zz"

RosterNames == {pname[players[k]] : k \in 1 .. Len(players)}

\* The object the next Player(name, self) constructs (None when the model
\* is out of objects), and the name of a newcomer: callers join under
\* names not used before, the k-th newcomer under Names[k].
NewObject ==
    IF \A p \in Ids : pname[p] # "" THEN None
    ELSE CHOOSE p \in Ids : pname[p] = "" /\ \A o \in Ids : o < p => pname[o] # ""

FreshName == IF NewObject = None THEN Stranger ELSE Names[NewObject]

\* Players that have left the roster so far.
Departed == Cardinality({p \in Ids : pname[p] # ""}) - Len(players)

\* Index lists of .choose a caller may send: none, one or two tokens; in
\* range, out of range ("9"), not a number ("x"), one index twice.
CardLists ==
    {<<>>, <<"0">>, <<"9">>, <<"x">>, <<"0", "1">>, <<"0", "0">>, <<"0", "x">>}

\* More index lists a caller may send, negative indices among them; the
\* outcome of a call with each is computed in every state reached.
IndexLists ==
    CardLists \cup {<<"1">>, <<"-1">>, <<"-2">>, <<"-9">>, <<"1", "0">>,
                    <<"0", "-1">>, <<"0", "9">>, <<"0", "1", "0">>}

\* Index tokens of a pick.
PickTokens == {"-1", "0", "1", "2", "9", "x"}

\* The outcomes of a shuffle the call may reach; one when it cannot.
RndIf(n, reached) == IF reached THEN 1 .. n ELSE {1}

Init ==
    /\ max_points \in 1 .. MaxMaxPoints
    /\ state = STARTING
    /\ players = <<>>
    /\ play_deque = <<>>
    /\ picker = None
    /\ black_card = <<>>
    /\ required_cards = 0
    /\ choices = <<>>
    /\ scores = <<>>
    /\ \E r \in 1 .. NShuffleWhite : white = shuffle_white(WhiteCards, r)
    /\ \E r \in 1 .. NShuffleBlack : black = shuffle_black(BlackCards, r)
    /\ pname = [p \in Ids |-> ""]
    /\ pstate = [p \in Ids |-> WAITING]
    /\ points = [p \in Ids |-> 0]
    /\ hand = [p \in Ids |-> <<>>]
    /\ last = [op |-> "init", who |-> "", err |-> "ok", from |-> STARTING]
    /\ lock = FALSE
    /\ call = Idle
    /\ judges = <<>>

\* add_player(name), under a new name or under the first player's.
AddPlayer ==
    \E name \in {FreshName} \cup {pname[players[k]] : k \in {1} \cap DOMAIN players},
       r \in RndIf(NShuffleDeque, state = STARTING) :
        LET res == add_player(Game, name, NewObject, r)
        IN /\ name \in RosterNames \/ state # STARTING \/ NewObject # None
           /\ Returns(collect(res.g), "add_player", name, res.err)

\* remove_player(name) on a game of plugin.py.
RemovePlayer ==
    \E name \in RosterNames \cup {Stranger} :
        \E rw \in RndIf(NShuffleWhite, name # Stranger),
           r \in RndIf(NShuffleChoices, state = WAITING_CHOICES) :
            LET res == remove_player(Game, name, rw, r)
            IN /\ name = Stranger \/ Departed < MaxRemovals
               /\ Returns(collect(res.g), "remove_player", name, res.err)

\* remove_player(name) on a game of game.py.
RemovePlayerGame ==
    \E name \in RosterNames \cup {Stranger} :
        LET res == remove_player_game(Game, name)
        IN /\ name = Stranger \/ Departed < MaxRemovals
           /\ Returns(collect(res.g), "remove_player", name, res.err)

Ready ==
    \E rw \in RndIf(NShuffleWhite, state = STARTING /\ Len(players) >= 3),
       rb \in RndIf(NShuffleBlack, state = STARTING /\ Len(players) >= 3) :
        LET res == ready(Game, rw, rb)
        IN Returns(collect(res.g), "ready", "", res.err)

\* player.choose(cards) for a player of the roster.  Whatever the cards, a
\* player who is not choosing gets the same answer: one list stands for all.
Choose ==
    \E k \in 1 .. Len(players) :
        \E cards \in IF pstate[players[k]] = CHOOSING THEN CardLists
                     ELSE {<<"0">>},
           r \in RndIf(NShuffleChoices, Len(players) - 2 = Len(choices)) :
            LET res == Player_choose(Game, players[k], cards, r)
            IN Returns(collect(res.g), "choose", pname[players[k]], res.err)

Pick ==
    \E choice \in PickTokens :
        LET res == pick(Game, choice)
        IN Returns(collect(res.g), "pick", "", res.err)

\* A game of plugin.py.
Next == AddPlayer \/ RemovePlayer \/ Ready \/ Choose \/ Pick

Spec == Init /\ [][Next]_vars

\* Some choose of a player of the roster would change the game: the
\* enabling condition of <<Choose>>_vars.
ChooseEnabled ==
    \E k \in 1 .. Len(players) :
        \E cards \in IF pstate[players[k]] = CHOOSING THEN CardLists
                     ELSE {<<"0">>},
           r \in RndIf(NShuffleChoices, Len(players) - 2 = Len(choices)) :
            collect(Player_choose(Game, players[k], cards, r).g) # Game

\* Some pick would change the game: the enabling condition of <<Pick>>_vars.
PickEnabled ==
    \E choice \in PickTokens : collect(pick(Game, choice).g) # Game

\* The steps that are a choose, or a pick, that changed the game: last is
\* the record of the call of every such step.
ChooseStep == last'.op = "choose"

PickedStep == last'.op = "pick"

\* A game of plugin.py in which the players who are choosing keep playing
\* and picks keep being made; joins, starts and removals come as they may.
\* The two conjuncts are WF_vars(Choose) and WF_vars(Pick) written out,
\* with the enabling conditions as state predicates.
FairSpec ==
    /\ Spec
    /\ []<>(~ChooseEnabled) \/ []<><<ChooseStep>>_vars
    /\ []<>(~PickEnabled) \/ []<><<PickedStep>>_vars

\* A game of game.py.
NextGame == AddPlayer \/ RemovePlayerGame \/ Ready \/ Choose \/ Pick

SpecGame == Init /\ [][NextGame]_vars

(* ------------------ a game played over many rounds -------------------- *)

\* A game constructed over larger card files.
InitRounds ==
    /\ max_points \in 1 .. MaxMaxPoints
    /\ state = STARTING
    /\ players = <<>>
    /\ play_deque = <<>>
    /\ picker = None
    /\ black_card = <<>>
    /\ required_cards = 0
    /\ choices = <<>>
    /\ scores = <<>>
    /\ white = shuffle_white(SubSeq(AllWhite, 1, NWhiteRounds), 1)
    /\ \E r \in 1 .. NShuffleBlack :
           black = shuffle_black(SubSeq(AllBlack, 1, NBlackRounds), r)
    /\ pname = [p \in Ids |-> ""]
    /\ pstate = [p \in Ids |-> WAITING]
    /\ points = [p \in Ids |-> 0]
    /\ hand = [p \in Ids |-> <<>>]
    /\ last = [op |-> "init", who |-> "", err |-> "ok", from |-> STARTING]
    /\ lock = FALSE
    /\ call = Idle
    /\ judges = <<>>

\* The roster does not change once the players have joined.
NextRounds == AddPlayer \/ Ready \/ Choose \/ Pick

SpecRounds == InitRounds /\ [][NextRounds]_vars

(* ------------------- a game of game.py under threads ------------------- *)

\* Player.choose up to the return of game.choose: the state test, the
\* staging of the choices and the recording of the submission.
ChooseEnter ==
    \E k \in 1 .. Len(players) :
        \E cards \in IF pstate[players[k]] = CHOOSING THEN CardLists
                     ELSE {<<"0">>},
           r \in RndIf(NShuffleChoices, Len(players) - 2 = Len(choices)) :
            LET p == players[k]
                staged == stage(hand[p], cards)
                c == Game_choose(Game, p, staged[2], r)
            IN /\ call.pc = "idle"
               /\ IF pstate[p] = CHOOSING /\ staged[1] /\ c.err = "ok"
                  THEN /\ Leaves(c.g, "choose", pname[p], "entered")
                       /\ call' = [pc |-> "remove", self |-> p,
                                   choices |-> staged[2]]
                  ELSE UNCHANGED vars

\* Player.choose: the loop that removes the choices from the hand.
ChooseRemove ==
    LET p == call.self
        rm == remove_choices(hand[p], call.choices)
        g == [Game EXCEPT !.hand[p] = rm[2]]
    IN /\ call.pc = "remove"
       /\ IF rm[1]
          THEN /\ Leaves(g, "choose", pname[p], "removed")
               /\ call' = [call EXCEPT !.pc = "draw"]
          ELSE /\ Leaves(g, "choose", pname[p], "ValueError")
               /\ call' = Idle

\* Player.choose: self.draw().
ChooseDraw ==
    /\ call.pc = "draw"
    /\ Leaves(draw(Game, call.self, HandSize), "choose", pname[call.self],
              "drawn")
    /\ call' = [call EXCEPT !.pc = "set"]

\* Player.choose: self.state = Player.WAITING, and the return.
ChooseSet ==
    /\ call.pc = "set"
    /\ Leaves([Game EXCEPT !.pstate[call.self] = WAITING], "choose",
              pname[call.self], "ok")
    /\ call' = Idle

\* One thread in Player.choose, the other callers' operations between its
\* steps.
NextThreads ==
    \/ AddPlayer
    \/ RemovePlayerGame
    \/ Ready
    \/ Pick
    \/ ChooseEnter
    \/ ChooseRemove
    \/ ChooseDraw
    \/ ChooseSet

SpecThreads == Init /\ [][NextThreads]_vars

(* ------------------------------- claims -------------------------------- *)

Roster == Range(players)

Active == state \in {WAITING_CHOICES, WAITING_PICK}

\* The players a step removes from the roster.
Leaving == {p \in Roster : p \notin Range(players')}

\* The submissions of player p in a submission list.
SubmissionsOf(cs, p) == {k \in 1 .. Len(cs) : cs[k][1] = p}

\* The response cards a submission text was assembled from.
CardsIn(text) ==
    {<<text[k]>> : k \in {j \in 1 .. Len(text) : <<text[j]>> \in Range(AllWhite)}}

\* C1: once the game state is Over it stays Over, whatever is called
\* afterwards.
C1_OverIsTerminal == [][state = OVER => state' = OVER]_vars

\* C2: while the state is WaitingForChoices or WaitingForPick the judge is
\* one player, and a current member of the roster (never a removed player).
C2_JudgeInRoster == Active => picker # None /\ picker \in Roster

\* C3: the submission list holds at most one submission per player and none
\* authored by the current judge.
C3_OneSubmissionEach ==
    /\ \A p \in Ids : Cardinality(SubmissionsOf(choices, p)) <= 1
    /\ Active => SubmissionsOf(choices, picker) = {}

\* C4: WaitingForPick only with as many submissions as the roster size
\* minus one, WaitingForChoices only with fewer.
C4_PickTrigger ==
    /\ state = WAITING_PICK => Len(choices) = Len(players) - 1
    /\ state = WAITING_CHOICES => Len(choices) < Len(players) - 1

\* C5: a choose call that fails, for any reason, leaves the player's hand,
\* the player's tag, the submission list and the game state as they were.
C5_FailedChooseChangesNothing ==
    \A k \in 1 .. Len(players), cards \in CardLists :
        LET p == players[k]
            res == Player_choose(Game, p, cards, 1)
        IN res.err # "ok" =>
               /\ res.g.hand[p] = hand[p]
               /\ res.g.pstate[p] = pstate[p]
               /\ res.g.choices = choices
               /\ res.g.state = state

\* C6: after remove_player for a player with a pending submission, no
\* submission of that player is left, the response cards that player played
\* are back in the response deck, and the response deck holds nothing but
\* response cards.
C6_SubmissionExcised ==
    [][\A p \in Leaving :
           SubmissionsOf(choices, p) # {} =>
               /\ SubmissionsOf(choices', p) = {}
               /\ \A k \in SubmissionsOf(choices, p) :
                      CardsIn(choices[k][2]) \subseteq Range(white')
               /\ Range(white') \subseteq Range(AllWhite)]_vars

\* C7: when the judge is removed in WaitingForPick, at least 3 players
\* remain and both decks hold cards (as _prepare_round finds them, the
\* hands topped off), every pending submission's response
\* cards are back in their author's hand, the submission list is empty, the
\* state is WaitingForChoices and the new judge is a roster member other
\* than the departed one.
C7_JudgeLeavesDuringPick ==
    [][(/\ state = WAITING_PICK
        /\ picker \in Leaving
        /\ Len(players') >= 3
        /\ white' # <<>> /\ black # <<>>) =>
           /\ state' = WAITING_CHOICES
           /\ choices' = <<>>
           /\ picker' \in Range(players') /\ picker' # picker
           /\ \A k \in 1 .. Len(choices) :
                  choices[k][1] \in Range(players') =>
                      CardsIn(choices[k][2]) \subseteq Range(hand'[choices[k][1]])
      ]_vars

\* C8: a Player.choose call holds the game's lock from its first step to
\* its last, so that no remove_player takes a player off the roster between
\* the steps of the call.
C8_ChooseNotInterrupted ==
    [][call.pc # "idle" => lock /\ players' = players]_vars

\* C9: when remove_player is called in WaitingForChoices and at least 3
\* players remain, the game advances to WaitingForPick exactly when the
\* remaining submissions are as many as the remaining non-judge players of
\* the roster; a departing judge voids the round instead.
C9_AdvanceOnRemoval ==
    [][(/\ state = WAITING_CHOICES
        /\ Leaving # {}
        /\ Len(players') >= 3) =>
           LET remaining == {k \in 1 .. Len(choices) : choices[k][1] \notin Leaving}
               nonjudges == {p \in Range(players') : p # picker}
           IN /\ state' = WAITING_PICK <=>
                     Cardinality(remaining) = Cardinality(nonjudges)
              /\ picker \in Leaving => state' # WAITING_PICK
      ]_vars

\* C10: in every state whose tag is not Starting the roster holds at least
\* 3 players.
C10_ThreePlayersOnceStarted == state # STARTING => Len(players) >= 3

\* C11: if remove_player leaves fewer than 3 players while the state is
\* WaitingForChoices or WaitingForPick, the state is Over and the score
\* snapshot is recomputed (the remaining roster by points) when the call
\* returns, whatever the phase and whether or not the judge left.
C11_ForcedEnd ==
    [][(Active /\ Leaving # {} /\ Len(players') < 3) =>
           /\ state' = OVER
           /\ scores' = Reverse(sorted_by_points(players', points'))]_vars

\* A step that is a pick call changing the game.
PickStep == state = WAITING_PICK /\ last'.op = "pick"

\* C12: when a pick raises a player's points to exactly max_points, the
\* round preparation that follows ends the game: the state is Over when
\* pick returns, that preparation has drawn no card from either deck, and
\* no new judge or prompt is set.
C12_WinEndsGame ==
    [][(PickStep /\ \E p \in Ids : points[p] # max_points /\ points'[p] = max_points) =>
           /\ state' = OVER
           /\ white' = white /\ black' = black /\ hand' = hand
           /\ picker' = picker /\ black_card' = black_card]_vars

\* C13: a response card that is in a player's hand is neither in the
\* response deck nor in another player's hand (nor twice in that hand), and
\* the current prompt is not in the prompt deck.
C13_DealtCardsLeaveDeck ==
    /\ \A p \in Ids : \A k \in 1 .. Len(hand[p]) :
           hand[p][k] \in Range(AllWhite) =>
               /\ hand[p][k] \notin Range(white)
               /\ \A q \in Ids \ {p} : hand[p][k] \notin Range(hand[q])
    /\ black_card \notin Range(black)

\* C13 reached: hands are dealt and a prompt is drawn.
C13_Dealt ==
    /\ state = WAITING_PICK
    /\ black_card # <<>>
    /\ \E p \in Roster : Len(hand[p]) = HandSize
    /\ white # <<>>

\* C14: the turn-order queue holds exactly the players of the roster, each
\* once; a remove_player call for a registered player returns without
\* raising and leaves that player in neither the roster nor the queue.
C14_QueueIsRoster ==
    [][/\ Range(play_deque') = Range(players')
       /\ Len(play_deque') = Len(players')
       /\ \A p \in Leaving :
              /\ last'.op = "remove_player" /\ last'.err = "ok"
              /\ p \notin Range(play_deque')]_vars

\* How many times x occurs in the sequence s.
Count(s, x) == Cardinality({k \in 1 .. Len(s) : s[k] = x})

\* C15: after a remove_player call that succeeds, every response card that
\* was in the removed player's hand just before the call is in the response
\* deck exactly once and in no remaining player's hand.
C15_HandReturnsToDeck ==
    [][\A p \in Leaving :
           last'.err = "ok" =>
               \A c \in Range(hand[p]) \cap Range(AllWhite) :
                   /\ Count(white', c) = 1
                   /\ \A q \in Range(players') : c \notin Range(hand'[q])]_vars

\* The sequence s without the elements at the positions in S.
RECURSIVE Without(_, _)
Without(s, S) ==
    IF s = <<>> THEN <<>>
    ELSE Without(SubSeq(s, 1, Len(s) - 1), S)
             \o (IF Len(s) \in S THEN <<>> ELSE <<s[Len(s)]>>)

\* The number of blanks among the first j tokens of a prompt.
BlanksUpTo(card, j) == Cardinality({i \in 1 .. j : card[i] = "%s"})

\* The text of a submission of one-token cards: the prompt with its k-th
\* blank filled by the k-th card, or the card itself when there is no blank.
IsFilled(text, card, chosen) ==
    IF \A j \in 1 .. Len(card) : card[j] # "%s" THEN text = chosen[1]
    ELSE /\ Len(text) = Len(card)
         /\ \A j \in 1 .. Len(card) :
                text[j] = IF card[j] = "%s" THEN chosen[BlanksUpTo(card, j)][1]
                          ELSE card[j]

\* C16: a choose call of a choosing player that succeeds removes from the
\* hand exactly the cards at the chosen indices, records one submission
\* whose text is the prompt with its blanks filled by those cards in the
\* order given (the card itself when the prompt has no blank), refills the
\* hand to the hand size when the response deck has enough cards, and sets
\* the player's tag to Waiting.
C16_ChooseEffect ==
    \A k \in 1 .. Len(players), cards \in IndexLists, r \in 1 .. NShuffleChoices :
        LET p == players[k]
            res == Player_choose(Game, p, cards, r)
            idx == [i \in 1 .. Len(cards) |->
                      py_index(int(cards[i])[2], Len(hand[p]))]
            chosen == [i \in 1 .. Len(cards) |-> hand[p][idx[i]]]
            rest == Without(hand[p], Range(idx))
            need == IF Len(rest) < HandSize THEN HandSize - Len(rest) ELSE 0
            n == IF need < Len(white) THEN need ELSE Len(white)
            drawn == [i \in 1 .. n |-> white[Len(white) + 1 - i]]
        IN res.err = "ok" =>
               /\ pstate[p] = CHOOSING
               /\ \A i \in 1 .. Len(cards) : idx[i] \in 1 .. Len(hand[p])
               /\ res.g.hand[p] = rest \o drawn
               /\ res.g.white = SubSeq(white, 1, Len(white) - n)
               /\ Len(white) >= HandSize - Len(rest) => Len(res.g.hand[p]) = HandSize
               /\ Len(res.g.choices) = Len(choices) + 1
               /\ \E text \in Range(res.g.choices) :
                      /\ text[1] = p
                      /\ Count(res.g.choices, text) = Count(choices, text) + 1
                      /\ \A e \in Range(choices) :
                             e # text => Count(res.g.choices, e) = Count(choices, e)
                      /\ (\A i \in 1 .. Len(cards) : chosen[i] \in Range(AllWhite))
                             => IsFilled(text[2], black_card, chosen)
               /\ res.g.pstate[p] = WAITING

\* C16 reached: a player has just played two cards on a prompt with two
\* blanks and the hand is full again.
C16_TwoCardsPlayed ==
    /\ last.op = "choose" /\ last.err = "ok"
    /\ required_cards = 2
    /\ \E p \in Roster :
           /\ pname[p] = last.who
           /\ Len(hand[p]) = HandSize
           /\ SubmissionsOf(choices, p) # {}

\* The index list names only positions 0 .. len(hand) - 1 of the hand h.
InRange(cards, h) ==
    \A i \in 1 .. Len(cards) :
        int(cards[i])[1] /\ int(cards[i])[2] \in 0 .. Len(h) - 1

\* C17: for a choosing player in WaitingForChoices, choose fails with
\* InvalidChoice for every index list that holds an index outside
\* 0 .. len(hand) - 1 (negative indices included) or that does not hold
\* exactly required_cards indices; only lists of exactly that many in-range
\* indices are accepted.
C17_InvalidChoiceRejected ==
    \A k \in 1 .. Len(players), cards \in IndexLists :
        LET p == players[k]
            res == Player_choose(Game, p, cards, 1)
            good == InRange(cards, hand[p]) /\ Len(cards) = required_cards
        IN (state = WAITING_CHOICES /\ pstate[p] = CHOOSING) =>
               /\ ~good => res.err = "InvalidChoiceError"
               /\ res.err = "ok" => good

\* C18: in WaitingForPick, pick with an index outside
\* 0 .. len(submissions) - 1 (negative indices included) fails with
\* InvalidPick and changes no player's points, nor the submission list, the
\* score snapshot or the state.
C18_InvalidPickRejected ==
    \A tok \in PickTokens :
        LET res == pick(Game, tok)
        IN (/\ state = WAITING_PICK
            /\ int(tok)[1]
            /\ int(tok)[2] \notin 0 .. Len(choices) - 1) =>
               /\ res.err = "InvalidPickError"
               /\ res.g.points = points
               /\ res.g.choices = choices
               /\ res.g.scores = scores
               /\ res.g.state = state

\* C19: a pick that succeeds in WaitingForPick adds exactly one point to
\* the author of the submission at the index, changes no other player's
\* points and returns that (author, text) submission; the author is a
\* player of the roster.
C19_PickAwardsAuthor ==
    \A tok \in PickTokens :
        LET res == pick(Game, tok)
            k == py_index(int(tok)[2], Len(choices))
            author == choices[k][1]
        IN (state = WAITING_PICK /\ res.err = "ok") =>
               /\ res.g.points[author] = points[author] + 1
               /\ \A q \in Ids \ {author} : res.g.points[q] = points[q]
               /\ res.ret = choices[k]
               /\ author \in Roster

\* A step after which the score snapshot is fresh: a pick that succeeds, or
\* the end of the game.
TallyStep ==
    \/ PickStep /\ last'.err = "ok"
    \/ state # OVER /\ state' = OVER

\* The snapshot sc lists the players of the roster ps, each once, by
\* points pts in descending order.
ByPointsDescending(sc, ps, pts) ==
    /\ Len(sc) = Len(ps)
    /\ Range(sc) = Range(ps)
    /\ \A i, j \in 1 .. Len(sc) : i < j => pts[sc[i]] >= pts[sc[j]]

\* C20 as stated: after every pick that succeeds and every game end the
\* score snapshot lists the roster's players by points in descending order,
\* players with equal points in the order of their insertion into the
\* roster.
C20_TiesInInsertionOrder ==
    [][TallyStep =>
           /\ ByPointsDescending(scores', players', points')
           /\ \A i, j \in 1 .. Len(scores') :
                  (i < j /\ points'[scores'[i]] = points'[scores'[j]]) =>
                      IndexOf(players', scores'[i]) < IndexOf(players', scores'[j])
      ]_vars

\* C20 amended: after every pick that succeeds and every game end the score
\* snapshot lists the roster's players by points in descending order,
\* players with equal points in the reverse of the order of their insertion
\* into the roster.
C20_TiesInReverseInsertionOrder ==
    [][TallyStep =>
           /\ ByPointsDescending(scores', players', points')
           /\ \A i, j \in 1 .. Len(scores') :
                  (i < j /\ points'[scores'[i]] = points'[scores'[j]]) =>
                      IndexOf(players', scores'[i]) > IndexOf(players', scores'[j])
      ]_vars

\* C20 reached: a pick has just succeeded and the snapshot lists two roster
\* players with equal points after one with more.
C20_TieAfterPick ==
    /\ last.op = "pick" /\ last.err = "ok"
    /\ Len(scores) >= 3
    /\ Range(scores) = Roster
    /\ points[scores[1]] > points[scores[2]]
    /\ points[scores[2]] = points[scores[3]]

\* C21: over consecutive rounds with no roster change the judge role
\* rotates through the turn-order queue: with n players any n consecutive
\* rounds have n different judges, and the judge of round k + n is the
\* judge of round k.
C21_JudgeRotates ==
    \A i, j \in 1 .. Len(judges) :
        /\ (i < j /\ j - i < Len(players)) => judges[i] # judges[j]
        /\ j - i = Len(players) => judges[i] = judges[j]

\* C21 reached: with 3 players a fourth round has begun.
C21_FourthRound == Len(players) = 3 /\ Len(judges) = 4

\* A step in which a new round begins: a prompt leaves the black deck.
NewRound == Len(black') < Len(black)

\* A step that is a ready call starting the game.
ReadyStep == state = STARTING /\ last'.op = "ready"

\* The cards held in hands, counted.
RECURSIVE CardsHeld(_, _)
CardsHeld(h, p) == IF p = 0 THEN 0 ELSE Len(h[p]) + CardsHeld(h, p - 1)

\* C22: running out of cards never surfaces as an error: a round begins
\* only with a prompt taken from a black deck that held one and with cards
\* left in the white deck after the hands are topped off; a ready or pick
\* that succeeds either begins a round or ends the game, and in it the
\* hands grow by exactly the cards that leave the white deck; no call
\* raises IndexError.
C22_EmptyDeckEndsGame ==
    [][/\ NewRound =>
              /\ black # <<>> /\ Len(black') = Len(black) - 1
              /\ black_card' \in Range(black)
              /\ white' # <<>>
              /\ state' = WAITING_CHOICES
       /\ (ReadyStep \/ (PickStep /\ last'.err = "ok")) =>
              /\ NewRound \/ state' = OVER
              /\ Len(white') <= Len(white)
              /\ CardsHeld(hand', MaxObjects) - CardsHeld(hand, MaxObjects)
                     = Len(white) - Len(white')
       /\ last'.err # "IndexError"]_vars

\* C22 reached: a pick has ended the game because the white deck ran out,
\* nobody holding max_points.
C22_DeckRanOut ==
    /\ state = OVER
    /\ last.op = "pick" /\ last.err = "ok"
    /\ white = <<>>
    /\ \A p \in Roster : points[p] < max_points

\* The player objects made so far, in the roster or out of it.
Made == {p \in Ids : pname[p] # ""}

\* C23: choose by a player whose tag is not CHOOSING, pick when the state
\* is not WAITING_PICK and ready when the state is not STARTING each raise
\* InvalidMoveError and leave the whole game as it was.
C23_WrongPhaseRejected ==
    /\ \A p \in Made : \A cards \in IndexLists : \A r \in 1 .. NShuffleChoices :
           pstate[p] # CHOOSING =>
               Player_choose(Game, p, cards, r)
                   = [g |-> Game, err |-> "InvalidMoveError"]
    /\ \A tok \in PickTokens :
           state # WAITING_PICK =>
               pick(Game, tok)
                   = [g |-> Game, err |-> "InvalidMoveError", ret |-> <<>>]
    /\ \A rw \in 1 .. NShuffleWhite : \A rb \in 1 .. NShuffleBlack :
           state # STARTING =>
               ready(Game, rw, rb) = [g |-> Game, err |-> "InvalidMoveError"]

\* C23 reached: a round is open, one player has played and is WAITING
\* again while another is still CHOOSING; choose by the first, pick and
\* ready are all out of phase.
C23_OutOfPhase ==
    /\ state = WAITING_CHOICES
    /\ \E p, q \in Roster :
           /\ p # picker /\ pstate[p] = WAITING /\ pstate[q] = CHOOSING
           /\ Player_choose(Game, p, <<"0">>, 1).err = "InvalidMoveError"
    /\ pick(Game, "0").err = "InvalidMoveError"
    /\ ready(Game, 1, 1).err = "InvalidMoveError"

\* Names a caller may join under: those of the players and the next new one.
JoinNames == RosterNames \cup {FreshName, Stranger}

\* C24: add_player raises InvalidMoveError whenever the state is not
\* STARTING (WAITING_CHOICES, WAITING_PICK and OVER alike) and
\* PlayerExistsError in STARTING when the name is already a player's; in
\* both cases the roster, the queue and the state are as before.
C24_AddPlayerRejected ==
    \A name \in JoinNames : \A r \in 1 .. NShuffleDeque :
        LET res == add_player(Game, name, NewObject, r)
        IN /\ state # STARTING =>
                  /\ res.err = "InvalidMoveError"
                  /\ res.g.players = players
                  /\ res.g.play_deque = play_deque
                  /\ res.g.state = state
                  /\ res.g.pname = pname
           /\ (state = STARTING /\ name \in RosterNames) =>
                  /\ res.err = "PlayerExistsError"
                  /\ res.g.players = players
                  /\ res.g.play_deque = play_deque
                  /\ res.g.state = state
                  /\ res.g.pname = pname

\* C24 reached: two players have joined a game not yet started and one of
\* the two names is used again.
C24_SameNameAgain ==
    /\ state = STARTING /\ Len(players) = 2 /\ NewObject # None
    /\ add_player(Game, pname[players[1]], NewObject, 1).err = "PlayerExistsError"

\* C25: add_player(name) in STARTING with a name no player has adds exactly
\* one player: the roster is the old one with the new player at its end,
\* found under that name, WAITING, with no points and no cards, and in the
\* play queue once; the decks, the state and every other player are as
\* before.
C25_AddPlayerEffect ==
    \A name \in JoinNames : \A r \in 1 .. NShuffleDeque :
        (state = STARTING /\ name \notin RosterNames /\ NewObject # None) =>
            LET new == NewObject
                res == add_player(Game, name, new, r)
            IN /\ res.err = "ok"
               /\ res.g.players = Append(players, new)
               /\ new \notin Roster
               /\ lookup(res.g, name) = new
               /\ res.g.pstate[new] = WAITING
               /\ res.g.points[new] = 0
               /\ res.g.hand[new] = <<>>
               /\ Len(res.g.play_deque) = Len(play_deque) + 1
               /\ Range(res.g.play_deque) = Range(play_deque) \cup {new}
               /\ res.g.white = white /\ res.g.black = black
               /\ res.g.state = state
               /\ res.g.picker = picker /\ res.g.choices = choices
               /\ \A q \in Roster :
                      /\ res.g.pname[q] = pname[q]
                      /\ res.g.pstate[q] = pstate[q]
                      /\ res.g.points[q] = points[q]
                      /\ res.g.hand[q] = hand[q]

\* C25 reached: a third player has just joined two others.
C25_ThirdJoined ==
    /\ state = STARTING /\ Len(players) = 3
    /\ last.op = "add_player" /\ last.err = "ok"
    /\ lookup(Game, last.who) = players[3]
    /\ Range(play_deque) = Roster

\* C26: ready() in STARTING with fewer than 3 players raises
\* NotEnoughPlayersError and leaves the whole game as it was: the state
\* STARTING, the roster, the queue, the hands and the decks.
C26_NotEnoughPlayers ==
    \A rw \in 1 .. NShuffleWhite : \A rb \in 1 .. NShuffleBlack :
        (state = STARTING /\ Len(players) < 3) =>
            ready(Game, rw, rb) = [g |-> Game, err |-> "NotEnoughPlayersError"]

\* C26 reached: two players have joined and ready is refused.
C26_TwoPlayersReady ==
    /\ state = STARTING /\ Len(players) = 2
    /\ ready(Game, 1, 1).err = "NotEnoughPlayersError"
    /\ white # <<>> /\ black # <<>>

\* The larger of two numbers.
max(a, b) == IF a >= b THEN a ELSE b

\* C27: with 3 players joined, max_points at least 1 and decks large
\* enough to deal (more response cards than 3 full hands, at least one
\* prompt), ready() succeeds, whichever prompt the shuffle brings to the
\* top of the black deck, and leaves the state WAITING_CHOICES, the
\* judge a player tagged WAITING, the two other players CHOOSING, every
\* hand of a non-judge full, no submissions, and required_cards equal to
\* max(1, blanks of the dealt prompt).
C27_ReadyDeals ==
    \A rw \in 1 .. NShuffleWhite : \A rb \in 1 .. NShuffleBlack + 2 :
        (/\ state = STARTING /\ Len(players) = 3
         /\ max_points >= 1
         /\ Len(white) > 3 * HandSize /\ Len(black) >= 1) =>
            LET res == ready(Game, rw, rb)
            IN /\ res.err = "ok"
               /\ res.g.state = WAITING_CHOICES
               /\ res.g.picker \in Roster
               /\ res.g.pstate[res.g.picker] = WAITING
               /\ res.g.players = players
               /\ \A q \in Roster \ {res.g.picker} :
                      /\ res.g.pstate[q] = CHOOSING
                      /\ Len(res.g.hand[q]) = HandSize
               /\ Cardinality({q \in Roster : res.g.pstate[q] = CHOOSING}) = 2
               /\ res.g.choices = <<>>
               /\ res.g.black_card \in Range(black)
               /\ res.g.required_cards
                      = max(1, count_blanks(res.g.black_card))

\* C27 reached: ready has started a game of 3 players and dealt a prompt
\* of two blanks, two cards being required.
C27_Started ==
    /\ state = WAITING_CHOICES /\ Len(players) = 3
    /\ last.op = "ready" /\ last.err = "ok"
    /\ count_blanks(black_card) = 2 /\ required_cards = 2
    /\ choices = <<>>
    /\ \A q \in Roster \ {picker} : pstate[q] = CHOOSING /\ Len(hand[q]) = HandSize

\* Hand sizes a caller may ask draw for: none, the default, two more.
DrawSizes == 0 .. HandSize + 2

\* C28: draw(hand_size) moves cards from the top of the white deck to the
\* end of the player's hand until the hand holds hand_size cards or the
\* deck is empty: the hand grows by as many cards as the deck shrinks, it
\* ends at hand_size whenever the deck held enough, a hand at or above
\* hand_size draws nothing, and nothing else changes.
C28_DrawFillsHand ==
    \A p \in Made : \A n \in DrawSizes :
        LET res == draw(Game, p, n)
            got == Len(res.hand[p]) - Len(hand[p])
        IN /\ got >= 0
           /\ got = Len(white) - Len(res.white)
           /\ res.hand[p] = hand[p] \o
                  [k \in 1 .. got |-> white[Len(white) + 1 - k]]
           /\ res.white = SubSeq(white, 1, Len(white) - got)
           /\ Len(hand[p]) < n => (Len(res.hand[p]) = n \/ res.white = <<>>)
           /\ (Len(hand[p]) <= n /\ Len(white) >= n - Len(hand[p])) =>
                  Len(res.hand[p]) = n
           /\ Len(hand[p]) >= n => res = Game
           /\ res = [Game EXCEPT !.hand[p] = res.hand[p], !.white = res.white]

\* C28 reached: the refills of a round have emptied the white deck and
\* left a player's hand short.
C28_DeckEmptiedByDraw ==
    /\ white = <<>>
    /\ state = WAITING_PICK
    /\ \E p \in Roster : Len(hand[p]) < HandSize
    /\ \E p \in Roster : p # picker /\ Len(hand[p]) = HandSize

\* The places a command of nick may come from: the game's channel, another
\* channel, the private conversation.
Places(nick) == {GameChannel, "#channel", nick}

\* C29: a .choose command from a player of the roster while the game is
\* STARTING, or while that player is WAITING, sends exactly one message,
\* "Please wait for your turn.", to the place the command came from, and
\* changes nothing in the game.
C29_ChooseOutOfTurn ==
    \A p \in Roster : \A place \in Places(pname[p]) :
        \A cards \in IndexLists : \A r \in 1 .. NShuffleChoices :
            (state = STARTING \/ pstate[p] = WAITING) =>
                CAHPlugin_choose(Game, pname[p], place, cards, r)
                    = [g |-> Game,
                       sent |-> << <<place, "Please wait for your turn.">> >>,
                       err |-> "ok"]

\* C29 reached: in a round a player who has played is WAITING and is told
\* to wait, in private as asked, while another who is CHOOSING is not.
C29_WaitYourTurn ==
    /\ state = WAITING_CHOICES
    /\ \E p, q \in Roster :
           /\ p # picker /\ pstate[p] = WAITING /\ pstate[q] = CHOOSING
           /\ CAHPlugin_choose(Game, pname[p], pname[p], <<"1">>, 1).sent
                  = << <<pname[p], "Please wait for your turn.">> >>
           /\ CAHPlugin_choose(Game, pname[q], pname[q], <<"1">>, 1).sent
                  # << <<pname[q], "Please wait for your turn.">> >>

\* C30: in every reachable state no player's hand holds more than the
\* hand size, also after a round is voided because the judge left and the
\* submissions are given back to their authors.
C30_HandWithinSize == \A p \in Roster : Len(hand[p]) <= HandSize

\* A step after which a round has just begun: the game enters
\* WAITING_CHOICES, or stays in it while its judge leaves.
RoundBegins ==
    /\ state' = WAITING_CHOICES
    /\ state # WAITING_CHOICES \/ picker \in Leaving

\* C31: a started game eventually reaches OVER when the players who are
\* CHOOSING keep submitting and picks keep being made, whatever the
\* removals; every round that begins takes one prompt off the black deck,
\* no step puts a prompt back, and so no more rounds begin than the deck
\* held prompts at first.
C31_GameEnds ==
    /\ [][/\ Len(black') <= Len(black)
          /\ black' = SubSeq(black, 1, Len(black')) \/ state = STARTING
          /\ RoundBegins => Len(black') = Len(black) - 1]_vars
    /\ [](Len(black) <= NBlack)
    /\ (state \in {WAITING_CHOICES, WAITING_PICK}) ~> (state = OVER)

\* C31 reached: the game is over after a round was begun with the last
\* prompt of the deck.
C31_PromptsUsedUp ==
    /\ state = OVER
    /\ black = <<>>
    /\ last.op = "pick" /\ last.err = "ok"

====
